---- MODULE Spec2Model ----
(***************************************************************************)
(* Model of the hand-written lexical analyzer of src/codigo.py: the class  *)
(* Lexer (cursor, symbol table, recognizers, next_token, tokenize) over    *)
(* bounded input texts.  A character is a one-character string, the input  *)
(* text a sequence of characters, a lexeme a string.                       *)
(***************************************************************************)
EXTENDS Integers, Sequences, FiniteSets, TLC

VARIABLES text, pos, line, col, lettab, letseq, ret, hist, extra

vars == <<text, pos, line, col, lettab, letseq, ret, hist, extra>>

(***************************************************************************)
(* Bounds of the model.                                                    *)
(***************************************************************************)
\* longest input text enumerated exhaustively over Alphabet
MaxLen == 3
\* calls made on a Lexer after its scan has ended (EOF returned or error raised)
MaxExtra == 2

(***************************************************************************)
(* Token tables (section 1 of the source).                                 *)
(***************************************************************************)
KEYWORDS ==
    { "if", "else", "while", "for", "return",
      "int", "float", "void", "char", "bool",
      "true", "false", "break", "continue" }

OPERATORS_2 ==
    [ k \in {"<=", ">=", "==", "!=", "++", "--", "+=", "-=", "*=", "/=", "&&", "||"} |->
        CASE k = "<=" -> "MEOI"
          [] k = ">=" -> "MAOI"
          [] k = "==" -> "IGL"
          [] k = "!=" -> "DIS"
          [] k = "++" -> "INC"
          [] k = "--" -> "DEC"
          [] k = "+=" -> "MASIG"
          [] k = "-=" -> "MENOSIG"
          [] k = "*=" -> "MULIG"
          [] k = "/=" -> "DIVIG"
          [] k = "&&" -> "LAND"
          [] k = "||" -> "LOR" ]

OPERATORS_1 ==
    [ k \in {"+", "-", "*", "/", "%", "<", ">", "=", "!", ":"} |->
        CASE k = "+" -> "MAS"
          [] k = "-" -> "MENOS"
          [] k = "*" -> "MUL"
          [] k = "/" -> "DIV"
          [] k = "%" -> "MOD"
          [] k = "<" -> "MEQ"
          [] k = ">" -> "MAQ"
          [] k = "=" -> "ES"
          [] k = "!" -> "NO"
          [] k = ":" -> "DPTS" ]

PUNCT ==
    [ k \in {";", ",", "(", ")", "{", "}", "[", "]", "."} |->
        CASE k = ";" -> "PYC"
          [] k = "," -> "COMA"
          [] k = "(" -> "IPAREN"
          [] k = ")" -> "DPAREN"
          [] k = "{" -> "ILLAVE"
          [] k = "}" -> "DLLAVE"
          [] k = "[" -> "ICOR"
          [] k = "]" -> "DCOR"
          [] k = "." -> "PUN" ]

(***************************************************************************)
(* Character classification and conversions of Python's str, restricted    *)
(* to the characters the model's texts are made of.                        *)
(***************************************************************************)
LowerLetters ==
    << "a", "b", "c", "d", "e", "f", "g", "h", "i", "j", "k", "l", "m",
       "n", "o", "p", "q", "r", "s", "t", "u", "v", "w", "x", "y", "z" >>

UpperLetters ==
    << "A", "B", "C", "D", "E", "F", "G", "H", "I", "J", "K", "L", "M",
       "N", "O", "P", "Q", "R", "S", "T", "U", "V", "W", "X", "Y", "Z" >>

\* str.isdecimal(): the characters int() reads as base-10 digits
DecimalDigits == << "0", "1", "2", "3", "4", "5", "6", "7", "8", "9" >>

\* U+00B2 SUPERSCRIPT TWO, written as the ASCII character "^" because the
\* strings of the model are ASCII; the character "^" itself is not among
\* the characters of the model's texts
SuperscriptTwo == "^"

\* characters str.isdigit() accepts although int() does not parse them
\* (superscript two stands for the whole class)
NonDecimalDigits == { SuperscriptTwo }

Range(f) == { f[i] : i \in DOMAIN f }

\* ch.isalpha()
isalpha(ch) == ch \in Range(LowerLetters) \cup Range(UpperLetters)

\* ch.isdigit()
isdigit(ch) == ch \in Range(DecimalDigits) \cup NonDecimalDigits

\* ch.isalnum()
isalnum(ch) == isalpha(ch) \/ isdigit(ch)

\* the string made of the characters of a sequence, in order
RECURSIVE Join(_)
Join(cs) == IF cs = <<>> THEN "" ELSE Head(cs) \o Join(Tail(cs))

\* lex.upper()
RECURSIVE upper(_)
upper(cs) ==
    IF cs = <<>> THEN ""
    ELSE LET ch == Head(cs)
             up == IF \E i \in DOMAIN LowerLetters : LowerLetters[i] = ch
                   THEN UpperLetters[CHOOSE i \in DOMAIN LowerLetters : LowerLetters[i] = ch]
                   ELSE ch
         IN  up \o upper(Tail(cs))

\* the value of one decimal digit
DigitValue(ch) == (CHOOSE i \in DOMAIN DecimalDigits : DecimalDigits[i] = ch) - 1

\* int(lex) on a run of isdigit() characters: the base-10 value, or ValueError
\* when a character of the run is not a decimal digit
RECURSIVE IntAcc(_, _)
IntAcc(cs, acc) ==
    IF cs = <<>> THEN acc ELSE IntAcc(Tail(cs), 10 * acc + DigitValue(Head(cs)))

\* int reading a run with a leading zero in base 8, as C does
RECURSIVE OctAcc(_, _)
OctAcc(cs, acc) ==
    IF cs = <<>> THEN acc ELSE OctAcc(Tail(cs), 8 * acc + DigitValue(Head(cs)))

int_leading_zero_octal(cs) ==
    IF \E i \in DOMAIN cs : cs[i] \notin Range(DecimalDigits)
    THEN [kind |-> "ValueError"]
    ELSE [kind |-> "int",
          value |-> IF Head(cs) = "0" THEN OctAcc(cs, 0) ELSE IntAcc(cs, 0)]

int(cs) ==
    IF \E i \in DOMAIN cs : cs[i] \notin Range(DecimalDigits)
    THEN [kind |-> "ValueError"]
    ELSE [kind |-> "int", value |-> IntAcc(cs, 0)]

(***************************************************************************)
(* Auxiliary data structures (section 2 of the source).                    *)
(***************************************************************************)
\* Optional[...] fields: None is the empty sequence, a present value v is <<v>>
None == <<>>

Some(v) == <<v>>

\* Token built with line and column exchanged
Token_swapped_position(type, lexeme, tline, tcol, value, lid) ==
    [type |-> type, lexeme |-> lexeme, line |-> tcol, col |-> tline,
     value |-> value, lid |-> lid]

\* the dataclass Token
Token(type, lexeme, tline, tcol, value, lid) ==
    [type |-> type, lexeme |-> lexeme, line |-> tline, col |-> tcol,
     value |-> value, lid |-> lid]

(***************************************************************************)
(* The Lexer.  A lexer state s is the record of the fields pos, line, col, *)
(* lettab and letseq (_letseq in the source); text and n = len(text) never *)
(* change after construction.                                              *)
(***************************************************************************)
n == Len(text)

\* Lexer.__init__
LexerInit ==
    [pos |-> 0, line |-> 1, col |-> 1, lettab |-> [k \in {} |-> 0], letseq |-> 0]

\* at_end that takes the last character for the end of the text
at_end_off_by_one(s) == s.pos >= n - 1

at_end(s) == s.pos >= n

peek(s, k) == IF s.pos + k >= n THEN "" ELSE text[s.pos + k + 1]

\* advance that keeps counting columns across a newline
advance_no_column_reset(s) ==
    LET ch == peek(s, 0) IN
    [s EXCEPT !.pos = @ + 1,
              !.line = IF ch = "\n" THEN @ + 1 ELSE @,
              !.col = @ + 1]

\* advance() taking a carriage return for a line end as well
advance_cr_as_newline(s) ==
    LET ch == peek(s, 0) IN
    [s EXCEPT !.pos = @ + 1,
              !.line = IF ch \in { "\n", "\r" } THEN @ + 1 ELSE @,
              !.col = IF ch \in { "\n", "\r" } THEN 1 ELSE @ + 1]

\* the state after advance(); the character it returns is peek(s, 0)
advance(s) ==
    LET ch == peek(s, 0) IN
    [s EXCEPT !.pos = @ + 1,
              !.line = IF ch = "\n" THEN @ + 1 ELSE @,
              !.col = IF ch = "\n" THEN 1 ELSE @ + 1]

\* the inner loop over blanks, tabs, carriage returns and newlines
RECURSIVE skip_ws(_)
skip_ws(s) ==
    IF ~at_end(s) /\ peek(s, 0) \in {" ", "\t", "\r", "\n"}
    THEN skip_ws(advance(s))
    ELSE s

\* the inner loop over the characters of a comment, up to the newline
RECURSIVE skip_comment(_)
skip_comment(s) ==
    IF ~at_end(s) /\ peek(s, 0) # "\n"
    THEN skip_comment(advance(s))
    ELSE s

\* skip_ws_and_comments without the comment rule
skip_blanks_only(s) == skip_ws(s)

RECURSIVE skip_ws_and_comments(_)

\* skip_pass leaving the loop after a comment instead of repeating it
skip_pass_once(s, s1) ==
    IF peek(s1, 0) = "/" /\ peek(s1, 1) = "/"
    THEN skip_comment(s1)
    ELSE IF s1.pos # s.pos
         THEN skip_ws_and_comments(s1)
         ELSE s1

\* skip_pass consuming the line end after a comment without looking for it
skip_pass_eat_newline(s, s1) ==
    IF peek(s1, 0) = "/" /\ peek(s1, 1) = "/"
    THEN skip_ws_and_comments(advance(skip_comment(s1)))
    ELSE IF s1.pos # s.pos
         THEN skip_ws_and_comments(s1)
         ELSE s1

\* one pass of the `while moved` loop is: the blank loop, which takes the
\* cursor from s to s1, then the comment rule; the loop repeats while a pass
\* moved the cursor
skip_pass(s, s1) ==
    IF peek(s1, 0) = "/" /\ peek(s1, 1) = "/"
    THEN skip_ws_and_comments(skip_comment(s1))
    ELSE IF s1.pos # s.pos
         THEN skip_ws_and_comments(s1)
         ELSE s1

skip_ws_and_comments(s) == skip_pass(s, skip_ws(s))

\* the test on the first character of an identifier
ident_start(ch) == isalpha(ch) \/ ch = "_"

\* ident_part accepting letters and underscores only
ident_part_no_digits(ch) == isalpha(ch) \/ ch = "_"

\* the test on every further character of an identifier
ident_part(ch) == isalnum(ch) \/ ch = "_"

\* the loop `lex += self.advance()` of read_identifier_or_keyword
RECURSIVE ident_loop(_, _)
ident_loop(s, lex) ==
    IF ~at_end(s) /\ ident_part(peek(s, 0))
    THEN ident_loop(advance(s), Append(lex, peek(s, 0)))
    ELSE [s |-> s, lex |-> lex]

\* lex.lower()
RECURSIVE lower(_)
lower(cs) ==
    IF cs = <<>> THEN ""
    ELSE LET ch == Head(cs)
             lo == IF \E i \in DOMAIN UpperLetters : UpperLetters[i] = ch
                   THEN LowerLetters[CHOOSE i \in DOMAIN UpperLetters : UpperLetters[i] = ch]
                   ELSE ch
         IN  lo \o lower(Tail(cs))

\* ttype matching the reserved words whatever the case of the letters
ttype_ignore_case(lex) == IF lower(lex) \in KEYWORDS THEN "KW_" \o upper(lex) ELSE "ID"

\* the token type of a lexeme: a keyword tag or "ID"
ttype(lex) == IF Join(lex) \in KEYWORDS THEN "KW_" \o upper(lex) ELSE "ID"

\* intern that never moves the id counter
intern_no_increment(s, name) ==
    IF name \notin DOMAIN s.lettab
    THEN [s EXCEPT !.lettab = [k \in DOMAIN s.lettab \cup {name} |->
                                   IF k = name THEN s.letseq ELSE s.lettab[k]]]
    ELSE s

\* lookup-or-insert of an identifier in the symbol table
intern(s, name) ==
    IF name \notin DOMAIN s.lettab
    THEN [s EXCEPT !.lettab = [k \in DOMAIN s.lettab \cup {name} |->
                                   IF k = name THEN s.letseq ELSE s.lettab[k]],
                   !.letseq = @ + 1]
    ELSE s

\* the token built once the loop has read the characters: s is the state
\* at the start (start_line, start_col), s1 the state after the loop, lex
\* the lexeme and ty its type; an identifier gets its id from the table
word_token(s, s1, lex, ty) ==
    [kind |-> "token", start |-> s.pos,
     s |-> IF ty = "ID" THEN intern(s1, lex) ELSE s1,
     tok |-> Token(ty, lex, s.line, s.col, None,
                   IF ty = "ID" THEN Some(intern(s1, lex).lettab[lex]) ELSE None)]

\* r is what the loop returns: the state after it and the characters read
word(s, r) == word_token(s, r.s, Join(r.lex), ttype(r.lex))

read_identifier_or_keyword(s) ==
    IF ~ident_start(peek(s, 0))
    THEN [kind |-> "None", s |-> s, start |-> s.pos]
    ELSE word(s, ident_loop(advance(s), <<peek(s, 0)>>))

\* the loop `lex += self.advance()` of read_number
RECURSIVE digit_loop(_, _)
digit_loop(s, lex) ==
    IF ~at_end(s) /\ isdigit(peek(s, 0))
    THEN digit_loop(advance(s), Append(lex, peek(s, 0)))
    ELSE [s |-> s, lex |-> lex]

\* the token built once the loop has read the digits: s is the state at the
\* start, s1 the state after the loop, lex the characters read and v the
\* outcome of int(lex)
number_token(s, s1, lex, v) ==
    IF v.kind = "ValueError"
    THEN [kind |-> "ValueError", s |-> s1, start |-> s.pos]
    ELSE [kind |-> "token", s |-> s1, start |-> s.pos,
          tok |-> Token("NUM", Join(lex), s.line, s.col, Some(v.value), None)]

\* r is what the loop returns: the state after it and the characters read
number(s, r) == number_token(s, r.s, r.lex, int(r.lex))

read_number(s) ==
    IF ~isdigit(peek(s, 0))
    THEN [kind |-> "None", s |-> s, start |-> s.pos]
    ELSE number(s, digit_loop(advance(s), <<peek(s, 0)>>))

\* read_operator_or_punct with the one-character tables consulted first
read_operator_or_punct_one_first(s) ==
    LET two_chars == peek(s, 0) \o peek(s, 1)
        one_char == peek(s, 0)
    IN  IF one_char \in DOMAIN OPERATORS_1
        THEN [kind |-> "token", s |-> advance(s), start |-> s.pos,
              tok |-> Token(OPERATORS_1[one_char], one_char, s.line, s.col, None, None)]
        ELSE IF two_chars \in DOMAIN OPERATORS_2
        THEN [kind |-> "token", s |-> advance(advance(s)), start |-> s.pos,
              tok |-> Token(OPERATORS_2[two_chars], two_chars, s.line, s.col, None, None)]
        ELSE IF one_char \in DOMAIN PUNCT
        THEN [kind |-> "token", s |-> advance(s), start |-> s.pos,
              tok |-> Token(PUNCT[one_char], one_char, s.line, s.col, None, None)]
        ELSE [kind |-> "None", s |-> s, start |-> s.pos]

read_operator_or_punct(s) ==
    LET two_chars == peek(s, 0) \o peek(s, 1)
        one_char == peek(s, 0)
    IN  IF two_chars \in DOMAIN OPERATORS_2
        THEN [kind |-> "token", s |-> advance(advance(s)), start |-> s.pos,
              tok |-> Token(OPERATORS_2[two_chars], two_chars, s.line, s.col, None, None)]
        ELSE IF one_char \in DOMAIN OPERATORS_1
        THEN [kind |-> "token", s |-> advance(s), start |-> s.pos,
              tok |-> Token(OPERATORS_1[one_char], one_char, s.line, s.col, None, None)]
        ELSE IF one_char \in DOMAIN PUNCT
        THEN [kind |-> "token", s |-> advance(s), start |-> s.pos,
              tok |-> Token(PUNCT[one_char], one_char, s.line, s.col, None, None)]
        ELSE [kind |-> "None", s |-> s, start |-> s.pos]

\* LexerError reporting the column counted from 0
LexerError_zero_based_col(s) ==
    [kind |-> "LexerError", s |-> s, start |-> s.pos,
     ch |-> peek(s, 0), line |-> s.line, col |-> s.col - 1]

\* LexerError raised after skipping the offending character
LexerError_skipping(s) ==
    [kind |-> "LexerError", s |-> advance(s), start |-> s.pos,
     ch |-> peek(s, 0), line |-> s.line, col |-> s.col]

\* the raise at the end of next_token: the character under the cursor and
\* the cursor's line and column
LexerError(s) ==
    [kind |-> "LexerError", s |-> s, start |-> s.pos,
     ch |-> peek(s, 0), line |-> s.line, col |-> s.col]

\* the recognizers tried in order on the state s1 the trivia skipper left:
\* the first token (or failure of int) wins, no token at all is a LexerError
first_of_3(s1, t3) == IF t3.kind # "None" THEN t3 ELSE LexerError(s1)

first_of_2(s1, t2) ==
    IF t2.kind # "None" THEN t2 ELSE first_of_3(s1, read_operator_or_punct(s1))

first_of_1(s1, t1) ==
    IF t1.kind # "None" THEN t1 ELSE first_of_2(s1, read_number(s1))

\* dispatch stepping over the end of the text when it returns the end marker
dispatch_eof_advances(s1) ==
    IF at_end(s1)
    THEN [kind |-> "token", s |-> advance(s1), start |-> s1.pos,
          tok |-> Token("EOF", "", s1.line, s1.col, None, None)]
    ELSE first_of_1(s1, read_identifier_or_keyword(s1))

\* next_token once the trivia is skipped
dispatch(s1) ==
    IF at_end(s1)
    THEN [kind |-> "token", s |-> s1, start |-> s1.pos,
          tok |-> Token("EOF", "", s1.line, s1.col, None, None)]
    ELSE first_of_1(s1, read_identifier_or_keyword(s1))

\* the outcome of one call: a token, a LexerError, or the ValueError that
\* escapes from int(); s is the lexer state the call leaves behind and start
\* the offset the cursor had when recognition started (kept for the call
\* history only, the source does not store it)
next_token(s) == dispatch(skip_ws_and_comments(s))

\* one entry of the call history: a token next_token returned from the state
\* s, with the offsets of the cursor when the call began (from), when
\* recognition started (start) and when the call returned (stop)
Entry(s, r) == [tok |-> r.tok, from |-> s.pos, start |-> r.start, stop |-> r.s.pos]

RECURSIVE tokenize_loop(_, _, _)

\* tokenize_pass catching the exception and returning the list built so far
tokenize_pass_partial_on_error(s, tokens, seen, r) ==
    IF r.kind = "token"
    THEN IF r.tok.type = "EOF"
         THEN [kind |-> "tokens", s |-> r.s, tokens |-> Append(tokens, r.tok),
               seen |-> Append(seen, Entry(s, r))]
         ELSE tokenize_loop(r.s, Append(tokens, r.tok), Append(seen, Entry(s, r)))
    ELSE [kind |-> "tokens", s |-> r.s, tokens |-> tokens, seen |-> seen]

\* the loop of tokenize(): tokens is the list built so far and r the outcome
\* of the next_token call of this pass.  An exception leaves the loop with
\* the list discarded; `seen` keeps the entries of the tokens the inner
\* next_token calls had returned, for the call history only
tokenize_pass(s, tokens, seen, r) ==
    IF r.kind = "token"
    THEN IF r.tok.type = "EOF"
         THEN [kind |-> "tokens", s |-> r.s, tokens |-> Append(tokens, r.tok),
               seen |-> Append(seen, Entry(s, r))]
         ELSE tokenize_loop(r.s, Append(tokens, r.tok), Append(seen, Entry(s, r)))
    ELSE IF r.kind = "LexerError"
         THEN [kind |-> "LexerError", s |-> r.s, ch |-> r.ch, line |-> r.line,
               col |-> r.col, seen |-> seen]
         ELSE [kind |-> "ValueError", s |-> r.s, seen |-> seen]

tokenize_loop(s, tokens, seen) == tokenize_pass(s, tokens, seen, next_token(s))

tokenize(s) == tokenize_loop(s, <<>>, <<>>)

(***************************************************************************)
(* Input texts: every text of at most MaxLen characters over Alphabet, and *)
(* a few longer texts.                                                     *)
(***************************************************************************)
Alphabet == { "i", "f", "x", "_", "0", "4", "=", "/", ";", " ", "\n", "@", SuperscriptTwo }

SampleTexts ==
    { << "=", " ", "=" >>,
      << "x", " ", "y", " ", "x" >>,
      << "I", "f", " ", "i", "f", "x", " ", "i", "f" >>,
      << "a", "b", "c", "1", "2", "3" >>,
      << "1", "2", "3", "a", "b", "c" >>,
      << "a", "\n", "b", "b" >>,
      << "0", "4", "2" >>,
      << "a", " ", "/", "/", " ", "c", "o", "m", "m", "e", "n", "t", "\n", "b" >>,
      << "a", " ", "@", " ", "b" >>,
      << "/", "/", "x", "\n", "\r", "\t", "/", "/", "\n", " " >>,
      << "x", "+", "+", "<", "=", "_", "y", "&", "&", "!", "=", "|", "|", "-", "-" >>,
      << "w", "h", "i", "l", "e", "(", "1", ")", "{", "}", "[", "]", ".", ",", ":" >>,
      << "e", "l", "s", "e", " ", "f", "o", "r", " ", "r", "e", "t", "u",
         "r", "n", " ", "i", "n", "t", " ", "f", "l", "o", "a", "t", " ",
         "v", "o", "i", "d" >>,
      << "c", "h", "a", "r", " ", "b", "o", "o", "l", " ", "t", "r", "u",
         "e", " ", "f", "a", "l", "s", "e", " ", "b", "r", "e", "a", "k",
         " ", "c", "o", "n", "t", "i", "n", "u", "e" >>,
      << "x", "*", "=", "2", "%", "3", "-", "=", "1", ">", "=", "0", "+", "=", "1" >>,
      << "i", "f", " ", "(", "x", " ", ">", "=", " ", "1", "0", ")", " ",
         "{", " ", "y", "+", "+", ";", " ", "}" >> }

Texts == UNION { [1..k -> Alphabet] : k \in 0..MaxLen } \cup SampleTexts

(***************************************************************************)
(* The state machine: one Lexer per text, driven by calls of next_token    *)
(* and tokenize.  ret is the outcome of the last call (with the offset the *)
(* cursor had when the call began, from), hist the entries of all the      *)
(* tokens next_token has returned so far.                                  *)
(***************************************************************************)
Self == [pos |-> pos, line |-> line, col |-> col, lettab |-> lettab, letseq |-> letseq]

\* the scan has ended: the end marker was returned or a lexical error raised
Ended ==
    \/ ret.kind = "LexerError"
    \/ ret.kind = "tokens"
    \/ ret.kind = "token" /\ ret.tok.type = "EOF"

Init ==
    /\ text \in Texts
    /\ pos = LexerInit.pos
    /\ line = LexerInit.line
    /\ col = LexerInit.col
    /\ lettab = LexerInit.lettab
    /\ letseq = LexerInit.letseq
    /\ ret = [op |-> "none", kind |-> "none"]
    /\ hist = <<>>
    /\ extra = 0

\* the fields of the lexer after a call that left the state s
Store(s) ==
    /\ pos' = s.pos
    /\ line' = s.line
    /\ col' = s.col
    /\ lettab' = s.lettab
    /\ letseq' = s.letseq

CallAllowed == ~Ended \/ extra < MaxExtra

Count == extra' = IF Ended THEN extra + 1 ELSE extra

\* next_token() returns or raises r
ReturnNextToken(r) ==
    /\ Store(r.s)
    /\ ret' = CASE r.kind = "token" ->
                    [op |-> "next_token", kind |-> "token", tok |-> r.tok,
                     from |-> pos, start |-> r.start]
                [] r.kind = "LexerError" ->
                    [op |-> "next_token", kind |-> "LexerError", ch |-> r.ch,
                     line |-> r.line, col |-> r.col, from |-> pos, start |-> r.start]
                [] r.kind = "ValueError" ->
                    [op |-> "next_token", kind |-> "ValueError", from |-> pos,
                     start |-> r.start]
    /\ hist' = IF r.kind = "token" THEN Append(hist, Entry(Self, r)) ELSE hist

\* tokenize() returns or raises r; calls is the number of next_token calls
\* it made (kept for the statements below, the source does not store it)
ReturnTokenize(r) ==
    /\ Store(r.s)
    /\ ret' = CASE r.kind = "tokens" ->
                    [op |-> "tokenize", kind |-> "tokens", tokens |-> r.tokens,
                     from |-> pos, calls |-> Len(r.seen)]
                [] r.kind = "LexerError" ->
                    [op |-> "tokenize", kind |-> "LexerError", ch |-> r.ch,
                     line |-> r.line, col |-> r.col, from |-> pos,
                     calls |-> Len(r.seen) + 1]
                [] r.kind = "ValueError" ->
                    [op |-> "tokenize", kind |-> "ValueError", from |-> pos,
                     calls |-> Len(r.seen) + 1]
    /\ hist' = hist \o r.seen

\* a caller calls next_token()
NextToken ==
    /\ CallAllowed
    /\ ReturnNextToken(next_token(Self))
    /\ Count
    /\ UNCHANGED text

\* a caller calls tokenize()
Tokenize ==
    /\ CallAllowed
    /\ ReturnTokenize(tokenize(Self))
    /\ Count
    /\ UNCHANGED text

Next == NextToken \/ Tokenize

Spec == Init /\ [][Next]_vars

(***************************************************************************)
(* Reading the input text directly, for the statements below.              *)
(***************************************************************************)
\* the character at 0-based offset off, "" past the end
CharAt(off) == IF off < Len(text) THEN text[off + 1] ELSE ""

\* the 1-based line of offset off: one more than the newlines before it
LineAt(off) == 1 + Cardinality({ i \in 1..off : text[i] = "\n" })

\* the 1-based column of offset off: one more than the characters between
\* the last newline before it and itself
ColAt(off) ==
    LET nls == { i \in 1..off : text[i] = "\n" }
        last == IF nls = {} THEN 0 ELSE CHOOSE i \in nls : \A j \in nls : j <= i
    IN  off - last + 1

\* the types of a list of tokens
Types(tokens) == [i \in DOMAIN tokens |-> tokens[i].type]

\* the last call was tokenize() on a lexer that had returned no token yet,
\* and it returned a list
FreshTokenize ==
    /\ ret.op = "tokenize"
    /\ ret.kind = "tokens"
    /\ extra = 0
    /\ Len(hist) = Len(ret.tokens)

(***************************************************************************)
(* C1  Operator greediness.  Whenever the two characters at the offset     *)
(* where a token starts form a key of OPERATORS_2, the token returned is   *)
(* the single token of that two-character kind and the cursor has moved by *)
(* exactly two characters; a token of a one-character operator or          *)
(* punctuation kind is returned only where the two-character window is not *)
(* a key, and moves the cursor by one.  The next token starts no earlier   *)
(* than the cursor was left.  tokenize("==") is [IGL, EOF] and             *)
(* tokenize("= =") is [ES, ES, EOF].                                       *)
(***************************************************************************)
C1_OperatorGreediness ==
    /\ \A i \in DOMAIN hist :
          LET h == hist[i]
              two == CharAt(h.start) \o CharAt(h.start + 1)
          IN  /\ two \in DOMAIN OPERATORS_2 =>
                    /\ h.tok.type = OPERATORS_2[two]
                    /\ h.tok.lexeme = two
                    /\ h.stop = h.start + 2
              /\ h.tok.type \in Range(OPERATORS_1) \cup Range(PUNCT) =>
                    /\ two \notin DOMAIN OPERATORS_2
                    /\ h.stop = h.start + 1
              /\ i + 1 \in DOMAIN hist => hist[i + 1].start >= h.stop
    /\ FreshTokenize /\ text = << "=", "=" >> => Types(ret.tokens) = << "IGL", "EOF" >>
    /\ FreshTokenize /\ text = << "=", " ", "=" >> => Types(ret.tokens) = << "ES", "ES", "EOF" >>

\* tokenize("==") has returned one two-character token and the end marker
C1_Witness ==
    /\ FreshTokenize
    /\ text = << "=", "=" >>
    /\ Len(ret.tokens) = 2
    /\ ret.tokens[1].lexeme = "=="
    /\ hist[1].stop = 2

\* the indices of the history entries that are identifier tokens
IdEntries == { i \in DOMAIN hist : hist[i].tok.type = "ID" }

\* the identifier spellings returned before history entry i
SeenBefore(i) == { hist[j].tok.lexeme : j \in { k \in IdEntries : k < i } }

(***************************************************************************)
(* C2  Symbol-id stability.  After any sequence of calls the symbol table  *)
(* is an injective map from the identifier spellings returned so far onto  *)
(* 0 .. letseq-1 (no gaps); the first occurrence of a spelling carries the *)
(* number of distinct spellings seen before it, every identifier token     *)
(* carries the id the table holds for its spelling, so repeats reuse the   *)
(* id.  tokenize("x y x") yields the ids [0, 1, 0].                        *)
(***************************************************************************)
C2_SymbolIdStability ==
    /\ \A a, b \in DOMAIN lettab : a # b => lettab[a] # lettab[b]
    /\ { lettab[a] : a \in DOMAIN lettab } = 0 .. (letseq - 1)
    /\ DOMAIN lettab = { hist[i].tok.lexeme : i \in IdEntries }
    /\ \A i \in IdEntries :
          /\ hist[i].tok.lid = Some(lettab[hist[i].tok.lexeme])
          /\ hist[i].tok.lexeme \notin SeenBefore(i) =>
                hist[i].tok.lid = Some(Cardinality(SeenBefore(i)))
          /\ \A j \in IdEntries :
                (hist[i].tok.lexeme = hist[j].tok.lexeme) <=> (hist[i].tok.lid = hist[j].tok.lid)
    /\ FreshTokenize /\ text = << "x", " ", "y", " ", "x" >> =>
          [i \in 1..3 |-> ret.tokens[i].lid] = << Some(0), Some(1), Some(0) >>

\* an identifier was returned a second time after another spelling
C2_Witness ==
    \E i, j, k \in IdEntries :
       /\ i < j
       /\ j < k
       /\ hist[i].tok.lexeme = hist[k].tok.lexeme
       /\ hist[i].tok.lexeme # hist[j].tok.lexeme
       /\ hist[k].tok.lid = Some(0)
       /\ hist[j].tok.lid = Some(1)

\* the tag of each reserved word
KeywordTag ==
    [ k \in KEYWORDS |->
        CASE k = "if" -> "KW_IF"
          [] k = "else" -> "KW_ELSE"
          [] k = "while" -> "KW_WHILE"
          [] k = "for" -> "KW_FOR"
          [] k = "return" -> "KW_RETURN"
          [] k = "int" -> "KW_INT"
          [] k = "float" -> "KW_FLOAT"
          [] k = "void" -> "KW_VOID"
          [] k = "char" -> "KW_CHAR"
          [] k = "bool" -> "KW_BOOL"
          [] k = "true" -> "KW_TRUE"
          [] k = "false" -> "KW_FALSE"
          [] k = "break" -> "KW_BREAK"
          [] k = "continue" -> "KW_CONTINUE" ]

\* the token of history entry i starts on a letter or an underscore
StartsWord(i) ==
    \/ CharAt(hist[i].start) = "_"
    \/ \E k \in DOMAIN LowerLetters :
          CharAt(hist[i].start) \in { LowerLetters[k], UpperLetters[k] }

(***************************************************************************)
(* C3  Keyword vs identifier.  A token that starts on a letter or an       *)
(* underscore and whose lexeme is, with the same case, one of the 14       *)
(* reserved words has the kind "KW_" + the uppercased word and no symbol   *)
(* id, and the reserved words never enter the symbol table: the table and  *)
(* the id counter depend on the identifier tokens alone.  Every other such *)
(* lexeme is an ID token whose id is the one the table holds.  "if" is     *)
(* KW_IF, "ifx" and "If" are ID.                                           *)
(***************************************************************************)
C3_KeywordVsIdentifier ==
    /\ Cardinality(KEYWORDS) = 14
    /\ \A i \in DOMAIN hist :
          LET t == hist[i].tok IN
          IF StartsWord(i)
          THEN IF t.lexeme \in KEYWORDS
               THEN t.type = KeywordTag[t.lexeme] /\ t.lid = None
               ELSE /\ t.type = "ID"
                    /\ t.lexeme \in DOMAIN lettab
                    /\ t.lid = Some(lettab[t.lexeme])
          ELSE t.type # "ID" /\ t.type \notin { KeywordTag[k] : k \in KEYWORDS }
    /\ DOMAIN lettab \cap KEYWORDS = {}
    /\ DOMAIN lettab = { hist[i].tok.lexeme : i \in IdEntries }
    /\ letseq = Cardinality({ hist[i].tok.lexeme : i \in IdEntries })
    /\ FreshTokenize /\ text = << "i", "f" >> => Types(ret.tokens) = << "KW_IF", "EOF" >>
    /\ FreshTokenize /\ text = << "i", "f", "x" >> =>
          /\ Types(ret.tokens) = << "ID", "EOF" >>
          /\ ret.tokens[1].lid = Some(0)

\* a reserved word in another case, a reserved word extended by a character
\* and a reserved word itself were returned from one text
C3_Witness ==
    /\ Len(hist) >= 3
    /\ hist[1].tok.type = "ID" /\ hist[1].tok.lexeme = "If"
    /\ hist[2].tok.type = "ID" /\ hist[2].tok.lexeme = "ifx"
    /\ hist[3].tok.type = "KW_IF" /\ hist[3].tok.lexeme = "if"
    /\ letseq = 2

\* the characters of the text from offset a up to, not including, offset b
Slice(a, b) == Join(SubSeq(text, a + 1, b))

\* a character an identifier may continue with
WordChar(ch) == isalnum(ch) \/ ch = "_"

\* the token of history entry i is an identifier or a keyword
IsWord(i) == hist[i].tok.type = "ID" \/ hist[i].tok.type \in { KeywordTag[k] : k \in KEYWORDS }

(***************************************************************************)
(* C4  Maximal munch.  The lexeme of every identifier or keyword token is  *)
(* the run of alphanumeric-or-underscore characters from its first         *)
(* character up to the first character that is none (or the end of the     *)
(* text); the lexeme of every NUM token is likewise the whole run of       *)
(* digits.  Consecutive tokens never overlap.  "abc123" is one ID token,   *)
(* "123abc" is NUM "123" on offsets 0..2 followed by ID "abc" on 3..5.     *)
(***************************************************************************)
C4_MaximalMunch ==
    /\ \A i \in DOMAIN hist :
          LET h == hist[i] IN
          /\ IsWord(i) =>
                /\ h.stop > h.start
                /\ \A k \in h.start .. (h.stop - 1) : WordChar(CharAt(k))
                /\ ~WordChar(CharAt(h.stop))
                /\ h.tok.lexeme = Slice(h.start, h.stop)
          /\ h.tok.type = "NUM" =>
                /\ h.stop > h.start
                /\ \A k \in h.start .. (h.stop - 1) : isdigit(CharAt(k))
                /\ ~isdigit(CharAt(h.stop))
                /\ h.tok.lexeme = Slice(h.start, h.stop)
          /\ i + 1 \in DOMAIN hist => hist[i + 1].start >= h.stop
    /\ FreshTokenize /\ text = << "a", "b", "c", "1", "2", "3" >> =>
          /\ Types(ret.tokens) = << "ID", "EOF" >>
          /\ ret.tokens[1].lexeme = "abc123"
    /\ FreshTokenize /\ text = << "1", "2", "3", "a", "b", "c" >> =>
          /\ Types(ret.tokens) = << "NUM", "ID", "EOF" >>
          /\ ret.tokens[1].lexeme = "123" /\ ret.tokens[2].lexeme = "abc"
          /\ hist[1].stop = 3 /\ hist[2].start = 3

\* a number directly followed by a letter was returned, then the identifier
\* that starts on that letter and holds a digit
C4_Witness ==
    /\ Len(hist) >= 2
    /\ hist[1].tok.type = "NUM" /\ hist[1].tok.lexeme = "4"
    /\ hist[2].tok.type = "ID" /\ hist[2].tok.lexeme = "x0"
    /\ hist[2].start = hist[1].stop

(***************************************************************************)
(* C5  Token position.  The line and col of every token next_token has     *)
(* returned (identifier, keyword, number, operator, punctuation, and the   *)
(* end marker) are the 1-based line and column of the offset at which its  *)
(* lexeme starts in the text: one more than the newlines before it, one    *)
(* more than the characters since the last newline.  "a\nbb" yields a at   *)
(* (1,1) and bb at (2,1).                                                  *)
(***************************************************************************)
C5_TokenPosition ==
    /\ \A i \in DOMAIN hist :
          LET h == hist[i] IN
          /\ h.tok.line = LineAt(h.start)
          /\ h.tok.col = ColAt(h.start)
          /\ h.tok.lexeme = Slice(h.start, h.stop)
          /\ h.tok.type # "EOF" => h.stop > h.start
    /\ FreshTokenize /\ text = << "a", "\n", "b", "b" >> =>
          /\ ret.tokens[1].lexeme = "a" /\ ret.tokens[1].line = 1 /\ ret.tokens[1].col = 1
          /\ ret.tokens[2].lexeme = "bb" /\ ret.tokens[2].line = 2 /\ ret.tokens[2].col = 1

\* a token was returned from the second line of a text, away from the
\* first column
C5_Witness ==
    \E i \in DOMAIN hist :
       /\ hist[i].tok.line = 2
       /\ hist[i].tok.col = 2
       /\ hist[i].tok.type = "ID"

\* the value of a decimal digit character
DigitOf(ch) ==
    CASE ch = "0" -> 0 [] ch = "1" -> 1 [] ch = "2" -> 2 [] ch = "3" -> 3
      [] ch = "4" -> 4 [] ch = "5" -> 5 [] ch = "6" -> 6 [] ch = "7" -> 7
      [] ch = "8" -> 8 [] ch = "9" -> 9

RECURSIVE Pow10(_)
Pow10(e) == IF e = 0 THEN 1 ELSE 10 * Pow10(e - 1)

\* the base-10 value of the digits of the text on offsets a .. b-1
RECURSIVE DecimalValue(_, _)
DecimalValue(a, b) ==
    IF a >= b THEN 0
    ELSE DigitOf(CharAt(a)) * Pow10(b - a - 1) + DecimalValue(a + 1, b)

(***************************************************************************)
(* C6  Literal value.  Every NUM token carries a value, the base-10        *)
(* integer its digit run denotes; the lexeme keeps the leading zeros the   *)
(* value ignores; no other token carries a value.  "042" yields the lexeme *)
(* "042" and the value 42.                                                 *)
(***************************************************************************)
C6_LiteralValue ==
    /\ \A i \in DOMAIN hist :
          LET h == hist[i] IN
          IF h.tok.type = "NUM"
          THEN /\ h.tok.lexeme = Slice(h.start, h.stop)
               /\ h.tok.value = Some(DecimalValue(h.start, h.stop))
          ELSE h.tok.value = None
    /\ FreshTokenize /\ text = << "0", "4", "2" >> =>
          /\ Types(ret.tokens) = << "NUM", "EOF" >>
          /\ ret.tokens[1].lexeme = "042"
          /\ ret.tokens[1].value = Some(42)

\* a digit run with a leading zero and a nonzero value was returned
C6_Witness ==
    \E i \in DOMAIN hist :
       /\ hist[i].tok.type = "NUM"
       /\ hist[i].tok.lexeme = "040"
       /\ hist[i].tok.value = Some(40)

\* a comment starts at offset p: two adjacent slashes
StartsComment(p) == CharAt(p) = "/" /\ CharAt(p + 1) = "/"

\* the offset of the first newline at or after offset p, the length of the
\* text when there is none
LineEnd(p) ==
    LET nls == { q \in p .. (Len(text) - 1) : CharAt(q) = "\n" }
    IN  IF nls = {} THEN Len(text) ELSE CHOOSE q \in nls : \A r \in nls : q <= r

\* the characters on offsets p .. b-1 are blanks, tabs, carriage returns,
\* newlines and whole comments, each comment running to its line's end
RECURSIVE TriviaFrom(_, _)
TriviaFrom(p, b) ==
    IF p >= b THEN p = b
    ELSE IF CharAt(p) \in { " ", "\t", "\r", "\n" } THEN TriviaFrom(p + 1, b)
    ELSE IF StartsComment(p) THEN LineEnd(p) <= b /\ TriviaFrom(LineEnd(p), b)
    ELSE FALSE

\* the offsets at which a comment was skipped before history entry i
CommentsBefore(i) == { p \in hist[i].from .. (hist[i].start - 1) : StartsComment(p) }

\* what C7 says of the comments apart from the line of the token that
\* follows: two slashes where a token could start open a comment that runs
\* to the end of its line and leaves the newline to the blank loop; what
\* next_token skips before a token is blanks and whole comments only; no
\* token starts on two slashes, so none is a DIV made of a comment's slash
CommentsSkipped ==
    /\ StartsComment(pos) =>
          /\ skip_comment(Self).pos = LineEnd(pos)
          /\ skip_comment(Self).line = line
    /\ \A i \in DOMAIN hist :
          LET h == hist[i] IN
          /\ TriviaFrom(h.from, h.start)
          /\ ~StartsComment(h.start)
          /\ h.tok.type = "DIV" => CharAt(h.start + 1) # "/"
          /\ i + 1 \in DOMAIN hist => hist[i + 1].from >= h.stop
    /\ FreshTokenize /\ text = << "a", " ", "/", "/", " ", "c", "o", "m", "m", "e", "n", "t", "\n", "b" >> =>
          /\ Types(ret.tokens) = << "ID", "ID", "EOF" >>
          /\ ret.tokens[1].lexeme = "a"
          /\ ret.tokens[2].lexeme = "b" /\ ret.tokens[2].line = 2 /\ ret.tokens[2].col = 1

(***************************************************************************)
(* C7 as stated  Comment handling, with the first token after a comment,   *)
(* the end marker included, always positioned on a later line than the     *)
(* comment.                                                                *)
(***************************************************************************)
C7_AsStated ==
    /\ CommentsSkipped
    /\ \A i \in DOMAIN hist : \A p \in CommentsBefore(i) : hist[i].tok.line > LineAt(p)

(***************************************************************************)
(* C7  Comment handling, amended.  Two adjacent slashes where a token      *)
(* could start open a comment skipped through the end of the line, the     *)
(* newline being left to the blank loop; the comment yields no token and   *)
(* its slashes are never DIV tokens.  The first token after a comment that *)
(* is not the end marker is positioned on a later line than the comment;   *)
(* the end marker is on a later line exactly when a newline follows the    *)
(* comment, and on the comment's own line when the comment runs to the end *)
(* of the input.  "a // comment\nb" yields [ID a, ID b, EOF], b at (2,1).  *)
(***************************************************************************)
C7_CommentHandling ==
    /\ CommentsSkipped
    /\ \A i \in DOMAIN hist : \A p \in CommentsBefore(i) :
          IF hist[i].tok.type = "EOF"
          THEN (hist[i].tok.line > LineAt(p)) <=> (LineEnd(p) < Len(text))
          ELSE hist[i].tok.line > LineAt(p)

\* an identifier was returned after a comment, from the line that follows
\* the comment's
C7_Witness ==
    \E i \in DOMAIN hist :
       /\ CommentsBefore(i) # {}
       /\ hist[i].tok.type = "ID"
       /\ hist[i].tok.line = 2
       /\ hist[i].from < hist[i].start

(***************************************************************************)
(* C8  Whitespace and comments only.  When the whole text is blanks, tabs, *)
(* carriage returns, newlines and single-line comments (the empty text     *)
(* included), tokenize() returns exactly one token, the EOF token with the *)
(* empty lexeme, positioned at the line and column that follow the last    *)
(* character of the text.                                                  *)
(***************************************************************************)
C8_TriviaOnlyInput ==
    TriviaFrom(0, Len(text)) /\ ret.op = "tokenize" =>
       /\ ret.kind = "tokens"
       /\ ret.tokens = << [type |-> "EOF", lexeme |-> "", line |-> LineAt(Len(text)),
                           col |-> ColAt(Len(text)), value |-> None, lid |-> None] >>
       /\ pos = Len(text)

\* tokenize() has returned on a text of comments, newlines, a carriage
\* return, a tab and a blank, the end marker being on the third line
C8_Witness ==
    /\ text = << "/", "/", "x", "\n", "\r", "\t", "/", "/", "\n", " " >>
    /\ FreshTokenize
    /\ ret.tokens[1].line = 3
    /\ ret.tokens[1].col = 2

\* one of the recognizers accepts the characters at offset p
AcceptedAt(p) ==
    \/ CharAt(p) = "_"
    \/ \E k \in DOMAIN LowerLetters : CharAt(p) \in { LowerLetters[k], UpperLetters[k] }
    \/ isdigit(CharAt(p))
    \/ CharAt(p) \o CharAt(p + 1) \in DOMAIN OPERATORS_2
    \/ CharAt(p) \in DOMAIN OPERATORS_1 \cup DOMAIN PUNCT

(***************************************************************************)
(* C9  Error reporting.  A call fails with LexerError exactly when, the    *)
(* trivia skipped and the end of the text not reached, no recognizer       *)
(* accepts the character under the cursor: after a LexerError the cursor   *)
(* rests on a character that is no blank, opens no comment and is accepted *)
(* by no recognizer, and the error carries that character and its 1-based  *)
(* line and column; a call that returns a token other than the end marker, *)
(* or that fails inside the number recognizer, started on an accepted      *)
(* character, and the end marker is returned at the end of the text only.  *)
(* "a @ b" fails reporting '@' at line 1, column 3.                        *)
(***************************************************************************)
C9_ErrorReporting ==
    /\ ret.kind = "LexerError" =>
          /\ pos < Len(text)
          /\ CharAt(pos) \notin { " ", "\t", "\r", "\n" }
          /\ ~StartsComment(pos)
          /\ ~AcceptedAt(pos)
          /\ ret.ch = CharAt(pos)
          /\ ret.line = LineAt(pos)
          /\ ret.col = ColAt(pos)
          /\ ret.op = "next_token" => TriviaFrom(ret.from, pos)
    /\ ret.op = "next_token" /\ ret.kind = "token" =>
          /\ TriviaFrom(ret.from, ret.start)
          /\ ret.tok.type = "EOF" => ret.start = Len(text)
          /\ ret.tok.type # "EOF" => ret.start < Len(text) /\ AcceptedAt(ret.start)
    /\ ret.op = "next_token" /\ ret.kind = "ValueError" =>
          /\ TriviaFrom(ret.from, ret.start)
          /\ isdigit(CharAt(ret.start))
    /\ text = << "a", " ", "@", " ", "b" >> /\ ret.op = "tokenize" =>
          /\ ret.kind = "LexerError"
          /\ ret.ch = "@" /\ ret.line = 1 /\ ret.col = 3

\* a lexical error was raised for a character of the second line, after
\* trivia had been skipped
C9_Witness ==
    /\ ret.kind = "LexerError"
    /\ ret.op = "next_token"
    /\ ret.ch = "@"
    /\ ret.line = 2
    /\ ret.col = 2
    /\ ret.from < pos

(***************************************************************************)
(* C10  Single error kind.  Every call of next_token or tokenize either    *)
(* returns normally or fails with LexerError: no other failure escapes.    *)
(***************************************************************************)
C10_SingleErrorKind == ret.kind \in { "none", "token", "tokens", "LexerError" }

\* the last call was tokenize() and it raised an exception
TokenizeFailed == ret.op = "tokenize" /\ ret.kind \in { "LexerError", "ValueError" }

(***************************************************************************)
(* C11  tokenize() is all-tokens-or-error.  When it returns, the list is   *)
(* the tokens its next_token calls returned, in their order, the last one  *)
(* is the EOF token and no other is.  When one of its next_token calls     *)
(* fails, tokenize fails with that error at once: the outcome holds no     *)
(* list of tokens, the failing call was its last call, none of the tokens  *)
(* seen before it is the end marker, and the cursor rests where that call  *)
(* left it (for a LexerError, on the character the error reports).         *)
(***************************************************************************)
C11_AllTokensOrError ==
    /\ ret.op = "tokenize" /\ ret.kind = "tokens" =>
          LET k == Len(ret.tokens)
              m == Len(hist)
          IN  /\ k >= 1
              /\ k <= m
              /\ ret.calls = k
              /\ \A i \in 1..k : ret.tokens[i] = hist[m - k + i].tok
              /\ hist[m - k + 1].from = ret.from
              /\ ret.tokens[k].type = "EOF"
              /\ \A i \in 1..(k - 1) : ret.tokens[i].type # "EOF"
    /\ TokenizeFailed =>
          /\ "tokens" \notin DOMAIN ret
          /\ ret.calls >= 1
          /\ ret.calls - 1 <= Len(hist)
          /\ \A i \in DOMAIN hist :
                i > Len(hist) - (ret.calls - 1) =>
                   /\ hist[i].tok.type # "EOF"
                   /\ hist[i].from >= ret.from
                   /\ hist[i].stop <= pos
          /\ ret.kind = "LexerError" =>
                /\ ret.ch = CharAt(pos)
                /\ ret.line = LineAt(pos)
                /\ ret.col = ColAt(pos)
                /\ \A i \in DOMAIN hist : hist[i].stop <= pos

\* tokenize() failed on its third next_token call, after two tokens that
\* it does not return
C11_Witness ==
    /\ TokenizeFailed
    /\ ret.kind = "LexerError"
    /\ ret.calls = 3
    /\ ret.from = 0
    /\ Len(hist) = 2


\* text of the end-to-end example
C12_Text == << "i", "f", " ", "(", "x", " ", ">", "=", " ", "1", "0", ")", " ",
               "{", " ", "y", "+", "+", ";", " ", "}" >>

\* the twelve tokens the example yields, without their positions
C12_Expected ==
    << [type |-> "KW_IF",  lexeme |-> "if", value |-> None,     lid |-> None],
       [type |-> "IPAREN", lexeme |-> "(",  value |-> None,     lid |-> None],
       [type |-> "ID",     lexeme |-> "x",  value |-> None,     lid |-> Some(0)],
       [type |-> "MAOI",   lexeme |-> ">=", value |-> None,     lid |-> None],
       [type |-> "NUM",    lexeme |-> "10", value |-> Some(10), lid |-> None],
       [type |-> "DPAREN", lexeme |-> ")",  value |-> None,     lid |-> None],
       [type |-> "ILLAVE", lexeme |-> "{",  value |-> None,     lid |-> None],
       [type |-> "ID",     lexeme |-> "y",  value |-> None,     lid |-> Some(1)],
       [type |-> "INC",    lexeme |-> "++", value |-> None,     lid |-> None],
       [type |-> "PYC",    lexeme |-> ";",  value |-> None,     lid |-> None],
       [type |-> "DLLAVE", lexeme |-> "}",  value |-> None,     lid |-> None],
       [type |-> "EOF",    lexeme |-> "",   value |-> None,     lid |-> None] >>

(***************************************************************************)
(* C12  End to end: tokenize() on a fresh Lexer of "if (x >= 10) { y++; }" *)
(* returns exactly twelve tokens, KW_IF "if", IPAREN "(", ID "x" with lid  *)
(* 0, MAOI ">=", NUM "10" with value 10, DPAREN ")", ILLAVE "{", ID "y"    *)
(* with lid 1, INC "++", PYC ";", DLLAVE "}" and EOF, in that order, each  *)
(* on line 1.                                                              *)
(***************************************************************************)
C12_EndToEnd ==
    (text = C12_Text /\ ret.op = "tokenize" /\ ret.from = 0) =>
        /\ ret.kind = "tokens"
        /\ Len(ret.tokens) = 12
        /\ \A i \in 1..12 :
              /\ ret.tokens[i].type = C12_Expected[i].type
              /\ ret.tokens[i].lexeme = C12_Expected[i].lexeme
              /\ ret.tokens[i].value = C12_Expected[i].value
              /\ ret.tokens[i].lid = C12_Expected[i].lid
              /\ ret.tokens[i].line = 1

\* tokenize() returned on a fresh Lexer of the example text
C12_Witness ==
    /\ text = C12_Text
    /\ FreshTokenize
    /\ Len(ret.tokens) = 12


\* r, the outcome of a recognizer called on the lexer state s, is one of the
\* two outcomes the statement allows
AllOrNothing(s, r) ==
    \/ /\ r.kind = "token"
       /\ r.s.pos = s.pos + Len(r.tok.lexeme)
    \/ /\ r.kind = "None"
       /\ r.s = s

(***************************************************************************)
(* C13  Recognizers are all-or-nothing: called at any cursor the lexer can *)
(* reach, each of read_identifier_or_keyword, read_number and              *)
(* read_operator_or_punct either returns a token with the cursor moved by  *)
(* the length of its lexeme, or returns no token and leaves pos, line,     *)
(* col, the symbol table and the id counter as they were; none consumes    *)
(* input without producing a token.                                        *)
(***************************************************************************)
C13_AllOrNothing ==
    /\ AllOrNothing(Self, read_identifier_or_keyword(Self))
    /\ AllOrNothing(Self, read_number(Self))
    /\ AllOrNothing(Self, read_operator_or_punct(Self))
    /\ AllOrNothing(skip_ws_and_comments(Self),
                    read_number(skip_ws_and_comments(Self)))


\* the lexer state with the cursor on offset k of the text
CursorAt(k) == [Self EXCEPT !.pos = k, !.line = LineAt(k), !.col = ColAt(k)]

\* line and col describe the character at offset pos
C14_Position ==
    /\ line = LineAt(pos)
    /\ col = ColAt(pos)
    /\ (\A i \in 1..pos : text[i] # "\n") => col = pos + 1

\* advance() on any character of the text: a newline increments line and
\* resets col, any other character increments col and keeps line; the
\* result describes the next offset
C14_Advance ==
    \A k \in 0..(Len(text) - 1) :
        LET s == CursorAt(k)
            a == advance(s)
        IN  /\ a.pos = k + 1
            /\ a.line = LineAt(k + 1)
            /\ a.col = ColAt(k + 1)
            /\ IF text[k + 1] = "\n"
               THEN a.line = s.line + 1 /\ a.col = 1
               ELSE a.line = s.line /\ a.col = s.col + 1

(***************************************************************************)
(* C14  Cursor invariant: through any sequence of next_token and tokenize  *)
(* calls pos never decreases from one state to the next, and in every      *)
(* state line is one more than the number of newlines in text[0:pos] and   *)
(* col one more than the number of characters of text[0:pos] after the     *)
(* last newline (pos + 1 when there is none).  Consuming a newline adds    *)
(* one to line and resets col to 1; consuming any other character,         *)
(* carriage return and tab included, adds one to col and keeps line.       *)
(***************************************************************************)
C14_CursorInvariant ==
    /\ [](C14_Position /\ C14_Advance)
    /\ [][pos' >= pos]_vars

\* the cursor has moved over a comment, a newline, a carriage return, a tab
\* and a second comment, and rests at the end of the third line
C14_Witness ==
    /\ text = << "/", "/", "x", "\n", "\r", "\t", "/", "/", "\n", " " >>
    /\ ret.op # "none"
    /\ pos = 10
    /\ line = 3
    /\ col = 2


\* the characters the blank loop of the skipper consumes
Blanks == { " ", "\t", "\r", "\n" }

\* s1 is a state skip_ws_and_comments may return when called with the
\* cursor on offset k
Drained(k, s1) ==
    /\ s1.pos >= k
    /\ s1.pos <= Len(text)
    /\ \/ s1.pos = Len(text)
       \/ CharAt(s1.pos) \notin Blanks /\ ~StartsComment(s1.pos)
    /\ TriviaFrom(k, s1.pos)
    /\ s1.line = LineAt(s1.pos)
    /\ s1.col = ColAt(s1.pos)
    /\ s1.lettab = lettab
    /\ s1.letseq = letseq

(***************************************************************************)
(* C15  Trivia is fully drained: whenever skip_ws_and_comments returns,    *)
(* from whatever offset of the text it was called on, the cursor is at end *)
(* of input or on a character that is no blank, tab, carriage return or    *)
(* newline and is not the first slash of a "//" pair, however blanks and   *)
(* comments interleave; the characters it consumed are blanks and whole    *)
(* comments only, and the symbol table and the id counter are untouched.   *)
(***************************************************************************)
C15_TriviaDrained ==
    /\ Drained(pos, skip_ws_and_comments(Self))
    /\ \A k \in 0..Len(text) : Drained(k, skip_ws_and_comments(CursorAt(k)))

\* next_token, called at the start of a text that interleaves two comments
\* with blanks, had its skipper consume all ten characters before the end
\* marker was recognized
C15_Witness ==
    /\ text = << "/", "/", "x", "\n", "\r", "\t", "/", "/", "\n", " " >>
    /\ ret.op = "next_token"
    /\ ret.kind = "token"
    /\ ret.from = 0
    /\ ret.start = 10
    /\ skip_ws_and_comments(CursorAt(0)).pos = 10

(***************************************************************************)
(* C16  Every token's lexeme is exactly the substring text[s : s + len]    *)
(* with s the offset at which its recognition started, and the cursor      *)
(* after the call is s + len.  The tokens a Lexer returns tile the input   *)
(* in source order: their lexemes occupy increasing ranges that do not     *)
(* overlap (strictly increasing but for the empty end marker), and every   *)
(* character before the first lexeme and between two consecutive lexemes   *)
(* is skipped trivia, so no character is both skipped and in a lexeme and  *)
(* none is dropped.                                                        *)
(***************************************************************************)
C16_LexemeTiling ==
    /\ \A i \in DOMAIN hist :
          /\ hist[i].tok.lexeme = Slice(hist[i].start, hist[i].stop)
          /\ hist[i].stop = hist[i].start + Len(hist[i].tok.lexeme)
          /\ hist[i].stop <= pos
          /\ hist[i].tok.type # "EOF" => hist[i].start < hist[i].stop
          /\ hist[i].tok.type = "EOF" => hist[i].stop = Len(text)
    /\ Len(hist) >= 1 => TriviaFrom(0, hist[1].start)
    /\ \A i \in 1..(Len(hist) - 1) :
          /\ hist[i].stop <= hist[i + 1].start
          /\ TriviaFrom(hist[i].stop, hist[i + 1].start)


\* the last call raised a LexerError
Failed == ret.kind = "LexerError"

\* the error rests on its character: the cursor is on the offending
\* character, which no call consumed, only trivia was skipped by a failing
\* next_token call, and no token returned so far reaches beyond it
C17_NotConsumed ==
    Failed =>
        /\ pos < Len(text)
        /\ ret.ch = CharAt(pos)
        /\ ret.line = LineAt(pos)
        /\ ret.col = ColAt(pos)
        /\ line = ret.line
        /\ col = ret.col
        /\ ret.op = "next_token" => ret.start = pos /\ TriviaFrom(ret.from, pos)
        /\ \A i \in DOMAIN hist : hist[i].stop <= pos

\* a next_token call that raises LexerError leaves the symbol table and the
\* id counter as they were before the call
C17_TableKept ==
    (ret'.op = "next_token" /\ ret'.kind = "LexerError") =>
        /\ lettab' = lettab
        /\ letseq' = letseq

\* after a LexerError every later call raises the same error at the same
\* place, moves nothing and returns no token
C17_Terminal ==
    Failed =>
        /\ ret'.kind = "LexerError"
        /\ ret'.ch = ret.ch
        /\ ret'.line = ret.line
        /\ ret'.col = ret.col
        /\ pos' = pos
        /\ line' = line
        /\ col' = col
        /\ lettab' = lettab
        /\ letseq' = letseq
        /\ hist' = hist

(***************************************************************************)
(* C17  A lexical error is terminal and non-consuming.  When next_token    *)
(* raises LexerError the offending character has not been consumed: the    *)
(* cursor rests on it, only the trivia before it was skipped, and the      *)
(* symbol table is as before the call.  Every later call on the same Lexer *)
(* raises the same error for the same character at the same line and       *)
(* column, and no token after the offending character is ever returned.    *)
(***************************************************************************)
C17_ErrorTerminal ==
    /\ []C17_NotConsumed
    /\ [][C17_TableKept /\ C17_Terminal]_vars

\* next_token raised the error after one identifier was returned, and then
\* raised it again on each further call the model makes, with the
\* identifier in the symbol table and a character left after the offending
\* one
C17_Witness ==
    /\ Failed
    /\ ret.op = "next_token"
    /\ extra = MaxExtra
    /\ ret.from = pos
    /\ Len(hist) = 1
    /\ letseq = 1
    /\ pos + 1 < Len(text)


\* every returned token other than the end marker left the cursor beyond
\* the offset its call started on
C18_Progress ==
    \A i \in DOMAIN hist :
        hist[i].tok.type # "EOF" => hist[i].stop > hist[i].from

\* tokenize() makes at most len(text) + 1 next_token calls
C18_Bound == ret.op = "tokenize" => ret.calls <= Len(text) + 1

(***************************************************************************)
(* C18  Termination and progress: every next_token call that returns a     *)
(* token other than EOF leaves pos strictly greater than before the call,  *)
(* and tokenize() ends after at most len(text) + 1 next_token calls in one *)
(* of two ways: it has appended the EOF token and returns the list, or it  *)
(* raises a lexical error (LexerError).                                    *)
(***************************************************************************)
C18_TerminationProgress ==
    /\ C18_Progress
    /\ C18_Bound
    /\ ret.op = "tokenize" =>
          \/ ret.kind = "tokens" /\ ret.tokens[Len(ret.tokens)].type = "EOF"
          \/ ret.kind = "LexerError"


\* no step of the lexer started with the cursor on offset k runs past the
\* end of the text: not the skipper, not a recognizer
StaysInside(k) ==
    /\ skip_ws_and_comments(CursorAt(k)).pos <= Len(text)
    /\ read_identifier_or_keyword(CursorAt(k)).s.pos <= Len(text)
    /\ read_number(CursorAt(k)).s.pos <= Len(text)
    /\ read_operator_or_punct(CursorAt(k)).s.pos <= Len(text)

(***************************************************************************)
(* C19  The cursor never runs past the end of input: in every state        *)
(* reachable through next_token and tokenize, 0 <= pos <= len(text).       *)
(* advance() is the only operation that moves the cursor and always moves  *)
(* it by one, so it is never invoked at pos = len(text): not by the second *)
(* advance of a two-character operator, not by the comment loop on a       *)
(* comment the input ends in; and line and col count only characters the   *)
(* text has.                                                               *)
(***************************************************************************)
C19_CursorInBounds ==
    /\ 0 <= pos
    /\ pos <= Len(text)
    /\ line + col <= Len(text) + 2
    /\ \A i \in DOMAIN hist : hist[i].stop <= Len(text)
    /\ \A k \in 0..Len(text) : StaysInside(k)

\* the skipper has run through a comment that the input ends in, and the
\* cursor rests on the end of the text
C19_Witness ==
    /\ text = << "x", "/", "/" >>
    /\ ret.op = "next_token"
    /\ ret.kind = "token"
    /\ ret.tok.type = "EOF"
    /\ ret.from = 1
    /\ pos = 3
    /\ extra = 0


\* the last call returned the end marker, alone or as the last token of a list
AtEOF ==
    \/ ret.kind = "token" /\ ret.tok.type = "EOF"
    \/ ret.kind = "tokens"

\* the end marker the last call returned
LastEOF == IF ret.kind = "tokens" THEN ret.tokens[Len(ret.tokens)] ELSE ret.tok

\* a call made once the end marker was returned: nothing moves, next_token
\* returns the same end marker and tokenize the list of that one token
C20_Absorbing ==
    AtEOF =>
        /\ pos' = pos
        /\ line' = line
        /\ col' = col
        /\ lettab' = lettab
        /\ letseq' = letseq
        /\ ret'.op = "next_token" =>
              /\ ret'.kind = "token"
              /\ ret'.tok.type = "EOF"
              /\ ret'.tok.lexeme = ""
              /\ ret'.tok.line = LastEOF.line
              /\ ret'.tok.col = LastEOF.col
              /\ ret'.tok = LastEOF
        /\ ret'.op = "tokenize" =>
              /\ ret'.kind = "tokens"
              /\ ret'.tokens = << LastEOF >>

(***************************************************************************)
(* C20  The terminated state is absorbing and idempotent: once next_token  *)
(* has returned the EOF token, every further next_token call on the same   *)
(* Lexer returns an EOF token with the same empty lexeme, line and col and *)
(* leaves pos, line, col and the symbol table unchanged, and a further     *)
(* tokenize() returns exactly the list of that one EOF token.              *)
(***************************************************************************)
C20_TerminatedAbsorbing ==
    /\ [](AtEOF => LastEOF.type = "EOF" /\ LastEOF.lexeme = "" /\ pos = Len(text))
    /\ [][C20_Absorbing]_vars

\* a further tokenize() after the end marker, on a Lexer that has returned
\* two tokens and interned an identifier, returned the end marker alone
C20_Witness ==
    /\ ret.op = "tokenize"
    /\ ret.kind = "tokens"
    /\ extra = MaxExtra
    /\ Len(ret.tokens) = 1
    /\ Len(hist) = 2 + 1 + MaxExtra
    /\ letseq = 1
    /\ ret.tokens[1].line = 2

====
